---- MODULE Spec2Model ----
(***************************************************************************)
(* Navigation grid, A* search, path simplification and staggered path      *)
(* updates of the zombie agents (src/world/nav_grid.rs, src/enemy.rs).     *)
(*                                                                         *)
(* Numbers.  World coordinates are integers counted in half world units,   *)
(* so the program's cell_size of 1.0 is 2 and a cell centre is an integer. *)
(* Points that the code computes by interpolation are kept exact as a      *)
(* numerator over the common denominator `steps`.  Path costs are counted  *)
(* in units of 0.0002, so that 1.0 is 5000 and 1.414 is 7070; the          *)
(* Euclidean heuristic is the square root rounded down to that unit.       *)
(* Entries of the open set whose f-scores are equal in that unit may be    *)
(* popped in any order, which covers every order the binary heap can       *)
(* produce.                                                                *)
(***************************************************************************)
EXTENDS Integers, Sequences, FiniteSets, TLC

\* ------------------------------------------------------------------------
\* Bounds of the model
\* ------------------------------------------------------------------------
GridW == 4
GridH == 3
LongW == 11
NumZombies == 2
MaxTicks == 21
WrapLead == 17
MaxMarks == 1

\* ------------------------------------------------------------------------
\* Program constants
\* ------------------------------------------------------------------------
cell_size == 2
CardinalCost == 5000
DiagonalCost == 7070
RingEnd == 10
F32_MAX == 2147483647
StaggerWindow == 20
ArriveDistance == 1
zombie_count == 40
SpawnSides == 4
Limb == 65536
WorldWidth == 100
WorldHeight == 100

VARIABLES
    width, height,                \* NavGrid fields (offset is derived)
    grid,                         \* the indices i with grid[i] true (walkable)
    phase,                        \* "idle" | "search" | "done"
    start, end,                   \* arguments of the find_path call
    start_node, end_node,         \* locals of find_path (Option of cell)
    goal_cell,                    \* world_to_grid(end) before retargeting
    open_set, came_from, g_score, closed_set,
    retarget_called,              \* find_nearest_walkable was called
    raw_path,                     \* route rebuilt by reconstruct_path
    result,                       \* Option<Vec<Vec3>> returned by find_path
    frame,                        \* FrameCounter.0, a u32 as <<high, low>> limbs
    zombies,                      \* Zombie, ZombiePath, Transform and controller
    player_pos,                   \* translation of the player
    sched_pc,                     \* the system of the Update chain to run next
    ticks,                        \* Update passes started
    searched,                     \* zombies the last path update searched for
    window,                       \* the searched sets of the last StaggerWindow updates
    previous,                     \* the zombies as the last path update found them
    query,                        \* the last call made on the grid from outside a search
    answer,                       \* what that call returned
    marks                         \* obstacles registered since NavGrid::new

gridVars == <<width, height, grid>>
searchVars == <<start, end, start_node, end_node, goal_cell,
                open_set, came_from, g_score, closed_set, retarget_called,
                raw_path, result>>
schedVars == <<frame, zombies, player_pos, sched_pc, ticks, searched, window,
               previous>>
apiVars == <<query, answer, marks>>
vars == <<width, height, grid, phase, start, end, start_node, end_node,
          goal_cell, open_set, came_from, g_score, closed_set, retarget_called,
          raw_path, result, frame, zombies, player_pos, sched_pc, ticks, searched,
          window, previous, query, answer, marks>>

\* ------------------------------------------------------------------------
\* Option values
\* ------------------------------------------------------------------------
None == << >>
Some(v) == <<v>>
IsSome(o) == o # << >>
Unwrap(o) == o[1]

\* ------------------------------------------------------------------------
\* Arithmetic helpers
\* ------------------------------------------------------------------------
Abs(a) == IF a < 0 THEN -a ELSE a
Min(a, b) == IF a < b THEN a ELSE b
Max(a, b) == IF a > b THEN a ELSE b

\* `as i32` of a quotient: truncation toward zero
TruncDiv(a, b) == IF a >= 0 THEN a \div b ELSE -((-a) \div b)

RECURSIVE ISqrtIn(_, _, _)
\* largest r in lo..hi with r * r <= n
ISqrtIn(n, lo, hi) ==
    IF lo = hi THEN lo
    ELSE LET mid == (lo + hi + 1) \div 2
         IN  IF mid * mid <= n THEN ISqrtIn(n, mid, hi) ELSE ISqrtIn(n, lo, mid - 1)
\* floor of the square root of a natural number (46340^2 < 2^31)
ISqrt(n) == ISqrtIn(n, 0, Min(n, 46340))

RECURSIVE FracSearch(_, _, _, _, _)
\* largest r in lo..hi with (b * v + r)^2 <= b^2 * v^2 + bound
FracSearch(v, bound, b, lo, hi) ==
    IF lo = hi THEN lo
    ELSE LET mid == (lo + hi + 1) \div 2
         IN  IF 2 * b * v * mid + mid * mid <= bound
             THEN FracSearch(v, bound, b, mid, hi)
             ELSE FracSearch(v, bound, b, lo, mid - 1)

\* from <<floor(sqrt(n)), n - floor(sqrt(n))^2>> to the same pair for b^2 * n
Refine(vr, b) ==
    LET r == FracSearch(vr[1], b * b * vr[2], b, 0, b - 1)
    IN  <<b * vr[1] + r, b * b * vr[2] - 2 * b * vr[1] * r - r * r>>

\* floor(CardinalCost * sqrt(d2)): the square root in cost units, refined in
\* two steps (CardinalCost = 50 * 100) to stay within 32 bits
SqrtCost(d2) ==
    LET q == ISqrt(d2)
    IN  Refine(Refine(<<q, d2 - q * q>>, 50), CardinalCost \div 50)[1]

\* ------------------------------------------------------------------------
\* NavGrid
\* ------------------------------------------------------------------------
Cells == (0..(width - 1)) \X (0..(height - 1))

\* NavGrid::new: every cell walkable
NewGrid(w, h) == 0..(w * h - 1)

\* offset = -(width * cell_size) / 2, -(height * cell_size) / 2
offset == [x |-> -((width * cell_size) \div 2), y |-> -((height * cell_size) \div 2)]

\* mutant: coordinates clamped into the grid instead of rejected
world_to_grid_scaled_Clamped(px, pz, s) ==
    LET x == TruncDiv(px - offset.x * s, cell_size * s)
        y == TruncDiv(pz - offset.y * s, cell_size * s)
    IN  Some(<<Max(0, Min(x, width - 1)), Max(0, Min(y, height - 1))>>)

\* cell of the point (px/s, pz/s); s = 1 for a plain Vec3
world_to_grid_scaled(px, pz, s) ==
    LET x == TruncDiv(px - offset.x * s, cell_size * s)
        y == TruncDiv(pz - offset.y * s, cell_size * s)
    IN  IF x >= 0 /\ x < width /\ y >= 0 /\ y < height
        THEN Some(<<x, y>>)
        ELSE None

world_to_grid(pos) == world_to_grid_scaled(pos[1], pos[2], 1)

\* mutant: the high corner of the cell
grid_to_world_HighCorner(x, y) ==
    <<offset.x + (x + 1) * cell_size, offset.y + (y + 1) * cell_size>>

\* centre of the cell
grid_to_world(x, y) ==
    <<offset.x + ((2 * x + 1) * cell_size) \div 2,
      offset.y + ((2 * y + 1) * cell_size) \div 2>>

\* mutant: only the bounds are tested
is_walkable_InBounds(x, y) == x >= 0 /\ x < width /\ y >= 0 /\ y < height

\* mutant: only the index into the array is tested
is_walkable_IndexOnly(x, y) ==
    IF y * width + x >= 0 /\ y * width + x < width * height
    THEN (y * width + x) \in grid
    ELSE FALSE

\* x and y are usize in the code: a negative operand has wrapped to a huge
\* value and fails the bounds test
is_walkable(x, y) ==
    IF x >= 0 /\ x < width /\ y >= 0 /\ y < height
    THEN (y * width + x) \in grid
    ELSE FALSE

\* the grid after set_obstacle_rect(min_x, min_y, max_x, max_y)
set_obstacle_rect(g, min_x, min_y, max_x, max_y) ==
    g \ {y * width + x : x \in min_x..Min(max_x, width - 1),
                          y \in min_y..Min(max_y, height - 1)}

\* the grid after mark_obstacle_world(pos, half_extents)
mark_obstacle_world(g, pos, half_extents) ==
    LET min_world == <<pos[1] - half_extents[1], pos[2] - half_extents[2]>>
        max_world == <<pos[1] + half_extents[1], pos[2] + half_extents[2]>>
        lo == world_to_grid(min_world)
        hi == world_to_grid(max_world)
    IN  IF IsSome(lo) /\ IsSome(hi)
        THEN set_obstacle_rect(g, Unwrap(lo)[1], Unwrap(lo)[2],
                               Unwrap(hi)[1], Unwrap(hi)[2])
        ELSE g

\* ------------------------------------------------------------------------
\* A* search
\* ------------------------------------------------------------------------
EmptyMap == [c \in {} |-> c]
MapPut(m, k, v) == [c \in (DOMAIN m) \cup {k} |-> IF c = k THEN v ELSE m[c]]

\* g_score.get(&c).unwrap_or(&f32::MAX)
GScore(g, c) == IF c \in DOMAIN g THEN g[c] ELSE F32_MAX

\* Euclidean distance between two cells
heuristic(a, b) ==
    LET dx == Abs(a[1] - b[1])
        dy == Abs(a[2] - b[2])
    IN  SqrtCost(dx * dx + dy * dy)

\* N, S, E, W, NE, NW, SE, SW
directions ==
    << <<0, 1>>, <<0, -1>>, <<1, 0>>, <<-1, 0>>,
       <<1, 1>>, <<-1, 1>>, <<1, -1>>, <<-1, -1>> >>

\* mutant: walls are ignored
NeighborOk_IgnoreWalls(pos, d) ==
    LET nx == pos[1] + d[1]
        ny == pos[2] + d[2]
    IN  nx >= 0 /\ nx < width /\ ny >= 0 /\ ny < height

\* mutant: a diagonal neighbour is pushed whatever the two cells beside it
NeighborOk_CutCorners(pos, d) ==
    LET nx == pos[1] + d[1]
        ny == pos[2] + d[2]
    IN  /\ nx >= 0 /\ nx < width /\ ny >= 0 /\ ny < height
        /\ is_walkable(nx, ny)

\* does get_neighbors(pos) push the cell in direction d
NeighborOk(pos, d) ==
    LET nx == pos[1] + d[1]
        ny == pos[2] + d[2]
    IN  /\ nx >= 0 /\ nx < width /\ ny >= 0 /\ ny < height
        /\ is_walkable(nx, ny)
        /\ (d[1] # 0 /\ d[2] # 0) =>
              (is_walkable(pos[1] + d[1], pos[2]) /\ is_walkable(pos[1], pos[2] + d[2]))

RECURSIVE NeighborsFrom(_, _)
NeighborsFrom(pos, i) ==
    IF i > Len(directions) THEN << >>
    ELSE (IF NeighborOk(pos, directions[i])
          THEN << <<pos[1] + directions[i][1], pos[2] + directions[i][2]>> >>
          ELSE << >>) \o NeighborsFrom(pos, i + 1)

\* mutant: the first direction is skipped
get_neighbors_SkipFirst(pos) == NeighborsFrom(pos, 2)

get_neighbors(pos) == NeighborsFrom(pos, 1)

\* 1.414 for a diagonal step, 1.0 for a cardinal step
move_cost(current, neighbor) ==
    IF neighbor[1] # current[1] /\ neighbor[2] # current[2]
    THEN DiagonalCost
    ELSE CardinalCost

\* first walkable in-grid cell on the perimeter of the square of the given
\* radius, scanning dx then dy upward
RingHits(pos, radius) ==
    {d \in (-radius..radius) \X (-radius..radius) :
        /\ Abs(d[1]) = radius \/ Abs(d[2]) = radius
        /\ pos[1] + d[1] >= 0 /\ pos[1] + d[1] < width
        /\ pos[2] + d[2] >= 0 /\ pos[2] + d[2] < height
        /\ is_walkable(pos[1] + d[1], pos[2] + d[2])}

FirstHit(hits) ==
    CHOOSE d \in hits :
        \A e \in hits : d[1] < e[1] \/ (d[1] = e[1] /\ d[2] <= e[2])

RECURSIVE NearestFrom_Inclusive(_, _)
\* mutant: for radius in 1..=10
NearestFrom_Inclusive(pos, radius) ==
    IF radius > RingEnd THEN None
    ELSE IF RingHits(pos, radius) # {}
         THEN LET d == FirstHit(RingHits(pos, radius))
              IN  Some(<<pos[1] + d[1], pos[2] + d[2]>>)
         ELSE NearestFrom_Inclusive(pos, radius + 1)

RECURSIVE NearestFrom(_, _)
NearestFrom(pos, radius) ==
    IF radius >= RingEnd THEN None
    ELSE IF RingHits(pos, radius) # {}
         THEN LET d == FirstHit(RingHits(pos, radius))
              IN  Some(<<pos[1] + d[1], pos[2] + d[2]>>)
         ELSE NearestFrom(pos, radius + 1)

\* mutant: the first ring is skipped
find_nearest_walkable_FromTwo(pos) == NearestFrom(pos, 2)

\* for radius in 1..10
find_nearest_walkable(pos) == NearestFrom(pos, 1)

\* every point sampled on the segment lies in a walkable cell
can_walk_straight(s, e) ==
    LET dx == e[1] - s[1]
        dz == e[2] - s[2]
        steps == ISqrt((4 * (dx * dx + dz * dz)) \div (cell_size * cell_size))
    IN  IF steps <= 1 THEN TRUE
        ELSE \A i \in 1..(steps - 1) :
                LET c == world_to_grid_scaled(s[1] * steps + dx * i,
                                              s[2] * steps + dz * i, steps)
                IN  IsSome(c) /\ is_walkable(Unwrap(c)[1], Unwrap(c)[2])

\* inner loop of simplify_path: j runs down from the end of the path and
\* stops at the first point that can be walked to, or at i + 1
FurthestReachable(path, i) ==
    LET reachable == {j \in (i + 2)..Len(path) : can_walk_straight(path[i], path[j])}
    IN  IF reachable = {} THEN i + 1
        ELSE CHOOSE j \in reachable : \A k \in reachable : k <= j

RECURSIVE SimplifyFrom(_, _, _)
\* outer loop of simplify_path (indices are 1-based here)
SimplifyFrom(path, i, simplified) ==
    IF i < Len(path)
    THEN LET j == FurthestReachable(path, i)
         IN  SimplifyFrom(path, j, Append(simplified, path[j]))
    ELSE simplified

\* mutant: the first point is not pushed before the loop
simplify_path_WithoutFirst(path) ==
    IF Len(path) <= 2 THEN path
    ELSE SimplifyFrom(path, 1, << >>)

simplify_path(path) ==
    IF Len(path) <= 2 THEN path
    ELSE SimplifyFrom(path, 1, <<path[1]>>)

RECURSIVE Ancestor(_, _, _)
\* the cell n steps back from c along came_from, or the cell with no entry
\* if that comes first
Ancestor(cf, c, n) ==
    IF n = 0 \/ c \notin DOMAIN cf THEN c
    ELSE IF n = 1 THEN cf[c]
    ELSE Ancestor(cf, Ancestor(cf, c, n \div 2), n - n \div 2)

RECURSIVE StepsBack(_, _, _, _)
\* how many times the while loop of reconstruct_path runs: the least n in
\* lo..hi whose Ancestor has no entry in came_from
StepsBack(cf, c, lo, hi) ==
    IF lo = hi THEN lo
    ELSE LET mid == (lo + hi) \div 2
         IN  IF Ancestor(cf, c, mid) \in DOMAIN cf
             THEN StepsBack(cf, c, mid + 1, hi)
             ELSE StepsBack(cf, c, lo, mid)

RECURSIVE PathBackN(_, _, _)
\* current and the n cells behind it
PathBackN(cf, current, n) ==
    IF n = 0 THEN <<current>>
    ELSE LET half == n \div 2
             first == PathBackN(cf, current, half)
         IN  first \o PathBackN(cf, cf[first[Len(first)]], n - half - 1)

\* the cells from current back along came_from
PathBack(cf, current) ==
    PathBackN(cf, current, StepsBack(cf, current, 0, Cardinality(DOMAIN cf)))

Reverse(s) == [i \in 1..Len(s) |-> s[Len(s) + 1 - i]]

\* mutant: the list is not reversed
RawPath_NotReversed(cf, current) ==
    LET back == PathBack(cf, current)
    IN  [i \in 1..Len(back) |-> grid_to_world(back[i][1], back[i][2])]

\* the reversed list of cell centres, before simplification
RawPath(cf, current) ==
    LET back == Reverse(PathBack(cf, current))
    IN  [i \in 1..Len(back) |-> grid_to_world(back[i][1], back[i][2])]

\* mutant: only the goal's waypoint is returned
reconstruct_path_GoalOnly(cf, current) ==
    <<grid_to_world(current[1], current[2])>>

reconstruct_path(cf, current) == simplify_path(RawPath(cf, current))

\* a Node of the open set
Node(pos, f) == [pos |-> pos, f_score |-> f]

\* the entries BinaryHeap::pop may return: those of least f_score
PopCandidates(open) == {n \in open : \A m \in open : n.f_score <= m.f_score}

RECURSIVE RelaxNeighbors_LinkReversed(_, _, _, _, _)
\* mutant: the predecessor link is stored the wrong way round
RelaxNeighbors_LinkReversed(st, current, goal, nbrs, i) ==
    IF i > Len(nbrs) THEN st
    ELSE LET neighbor == nbrs[i]
             tentative_g == GScore(st.g_score, current) + move_cost(current, neighbor)
         IN  IF neighbor \in st.closed_set
             THEN RelaxNeighbors_LinkReversed(st, current, goal, nbrs, i + 1)
             ELSE IF tentative_g < GScore(st.g_score, neighbor)
                  THEN RelaxNeighbors_LinkReversed(
                         [st EXCEPT
                            !.came_from = MapPut(@, current, neighbor),
                            !.g_score = MapPut(@, neighbor, tentative_g),
                            !.open_set = @ \cup
                               {Node(neighbor, tentative_g + heuristic(neighbor, goal))}],
                         current, goal, nbrs, i + 1)
                  ELSE RelaxNeighbors_LinkReversed(st, current, goal, nbrs, i + 1)

RECURSIVE RelaxNeighbors(_, _, _, _, _)
\* the for loop over get_neighbors(current.pos); st holds the open set,
\* came_from, g_score and closed set
RelaxNeighbors(st, current, goal, nbrs, i) ==
    IF i > Len(nbrs) THEN st
    ELSE LET neighbor == nbrs[i]
             tentative_g == GScore(st.g_score, current) + move_cost(current, neighbor)
         IN  IF neighbor \in st.closed_set
             THEN RelaxNeighbors(st, current, goal, nbrs, i + 1)
             ELSE IF tentative_g < GScore(st.g_score, neighbor)
                  THEN RelaxNeighbors(
                         [st EXCEPT
                            !.came_from = MapPut(@, neighbor, current),
                            !.g_score = MapPut(@, neighbor, tentative_g),
                            !.open_set = @ \cup
                               {Node(neighbor, tentative_g + heuristic(neighbor, goal))}],
                         current, goal, nbrs, i + 1)
                  ELSE RelaxNeighbors(st, current, goal, nbrs, i + 1)

\* mutant: an expanded cell is not put into the closed set
LoopIteration_NothingClosed(st, current, goal) ==
    LET popped == [st EXCEPT !.open_set = @ \ {current}]
    IN  IF current.pos = goal
        THEN [popped EXCEPT !.returned = TRUE,
                            !.raw_path = RawPath(st.came_from, current.pos),
                            !.result = Some(reconstruct_path(st.came_from, current.pos))]
        ELSE IF current.pos \in st.closed_set
             THEN popped
             ELSE RelaxNeighbors(popped, current.pos, goal, get_neighbors(current.pos), 1)

\* one iteration of `while let Some(current) = open_set.pop()`
LoopIteration(st, current, goal) ==
    LET popped == [st EXCEPT !.open_set = @ \ {current}]
    IN  IF current.pos = goal
        THEN [popped EXCEPT !.returned = TRUE,
                            !.raw_path = RawPath(st.came_from, current.pos),
                            !.result = Some(reconstruct_path(st.came_from, current.pos))]
        ELSE IF current.pos \in st.closed_set
             THEN popped
             ELSE RelaxNeighbors([popped EXCEPT !.closed_set = @ \cup {current.pos}],
                                 current.pos, goal, get_neighbors(current.pos), 1)

\* the search state set up before the loop
InitialSearch(s_node, goal) ==
    [open_set |-> {Node(s_node, heuristic(s_node, goal))},
     came_from |-> EmptyMap,
     g_score |-> MapPut(EmptyMap, s_node, 0),
     closed_set |-> {},
     returned |-> FALSE,
     raw_path |-> << >>,
     result |-> None]

\* the search state before anything ran
NoSearch ==
    [open_set |-> {}, came_from |-> EmptyMap, g_score |-> EmptyMap,
     closed_set |-> {}, returned |-> TRUE, raw_path |-> << >>, result |-> None]

\* the part of find_path before the loop: conversions, walkability tests
\* and retargeting
FindPathEntry(s, e) ==
    LET sn == world_to_grid(s)
        en == world_to_grid(e)
        blank == [start_node |-> None, goal_cell |-> None, end_node |-> None,
                  retarget_called |-> FALSE, search |-> NoSearch]
    IN  IF ~IsSome(sn) THEN blank
        ELSE IF ~IsSome(en) THEN [blank EXCEPT !.start_node = sn]
        ELSE IF ~is_walkable(Unwrap(sn)[1], Unwrap(sn)[2])
             THEN [blank EXCEPT !.start_node = sn, !.goal_cell = en]
        ELSE IF ~is_walkable(Unwrap(en)[1], Unwrap(en)[2])
             THEN LET near == find_nearest_walkable(Unwrap(en))
                  IN  [start_node |-> sn, goal_cell |-> en, end_node |-> near,
                       retarget_called |-> TRUE,
                       search |-> IF IsSome(near)
                                  THEN InitialSearch(Unwrap(sn), Unwrap(near))
                                  ELSE NoSearch]
        ELSE [start_node |-> sn, goal_cell |-> en, end_node |-> en,
              retarget_called |-> FALSE,
              search |-> InitialSearch(Unwrap(sn), Unwrap(en))]

RECURSIVE RunSearch(_, _)
\* the loop run to its end, for callers that only use the returned value
RunSearch(st, goal) ==
    IF st.returned THEN st.result
    ELSE IF st.open_set = {} THEN None
    ELSE RunSearch(LoopIteration(st, CHOOSE n \in PopCandidates(st.open_set) : TRUE, goal),
                   goal)

\* the value find_path(s, e) returns
find_path(s, e) ==
    LET entry == FindPathEntry(s, e)
    IN  IF entry.search.returned THEN None
        ELSE RunSearch(entry.search, Unwrap(entry.end_node))

\* ------------------------------------------------------------------------
\* Inputs
\* ------------------------------------------------------------------------
\* grid sizes: a small rectangle, and one long row for the ring search
Dims == {<<GridW, GridH>>, <<LongW, 1>>}

\* world positions and half extents of a registered obstacle
MarkPositions ==
    {<<x, z>> : x \in (offset.x - 1)..(offset.x + width * cell_size),
                z \in (offset.y - 1)..(offset.y + height * cell_size)}
HalfExtents ==
    {<<hx, hz>> : hx \in 0..((width * cell_size) \div 2),
                  hz \in 0..((height * cell_size) \div 2)}

\* the grids world construction can leave: NavGrid::new, then at most one
\* obstacle registered
WorldGrids ==
    {NewGrid(width, height)}
      \cup {mark_obstacle_world(NewGrid(width, height), pos, he) :
                pos \in MarkPositions, he \in HalfExtents}

\* points that are no cell centre: the low corner of the grid, a point less
\* than one cell below the low edge, and points a whole cell outside
OffCentre ==
    {<<offset.x, offset.y>>,
     <<offset.x - 1, offset.y + 1>>,
     <<offset.x - cell_size, offset.y + 1>>,
     <<offset.x + 1, offset.y + height * cell_size>>}

\* positions of the agent: the centres of the cells of the low quarter of
\* the grid, and the off-centre points
StartPositions ==
    {grid_to_world(c[1], c[2]) :
        c \in {d \in Cells : 2 * d[1] < width /\ 2 * d[2] < height}}
      \cup OffCentre

\* positions of the target: every cell centre, and the off-centre points
EndPositions == {grid_to_world(c[1], c[2]) : c \in Cells} \cup OffCentre

\* ------------------------------------------------------------------------
\* State machine
\* ------------------------------------------------------------------------
SearchState ==
    [open_set |-> open_set, came_from |-> came_from, g_score |-> g_score,
     closed_set |-> closed_set, returned |-> phase = "done",
     raw_path |-> raw_path, result |-> result]

SetSearch(st) ==
    /\ open_set' = st.open_set
    /\ came_from' = st.came_from
    /\ g_score' = st.g_score
    /\ closed_set' = st.closed_set
    /\ raw_path' = st.raw_path
    /\ result' = st.result

NoCall ==
    /\ start' = << >>
    /\ end' = << >>
    /\ start_node' = None
    /\ end_node' = None
    /\ goal_cell' = None
    /\ retarget_called' = FALSE
    /\ SetSearch(NoSearch)

\* the grid has not been called from outside a search
NoQueryYet ==
    /\ query = [op |-> "none"]
    /\ answer = None
    /\ marks = 0

\* no find_path call is under way
NoCallYet ==
    /\ phase = "idle"
    /\ start = << >>
    /\ end = << >>
    /\ start_node = None
    /\ end_node = None
    /\ goal_cell = None
    /\ retarget_called = FALSE
    /\ open_set = {}
    /\ came_from = EmptyMap
    /\ g_score = EmptyMap
    /\ closed_set = {}
    /\ raw_path = << >>
    /\ result = None

\* the Update chain is not running
NoSchedule ==
    /\ frame = <<0, 0>>
    /\ zombies = << >>
    /\ player_pos = <<0, 0>>
    /\ sched_pc = "off"
    /\ ticks = 0
    /\ searched = {}
    /\ window = << >>
    /\ previous = zombies

\* the world is built (Startup has run) and no search has been asked for
Init ==
    /\ \E d \in Dims : width = d[1] /\ height = d[2]
    /\ grid \in WorldGrids
    /\ NoCallYet
    /\ NoQueryYet
    /\ NoSchedule

\* find_path is called: everything up to the first pop
FindPathCall(s, e) ==
    /\ phase = "idle"
    /\ \E entry \in {FindPathEntry(s, e)} :
           /\ start' = s
           /\ end' = e
           /\ start_node' = entry.start_node
           /\ goal_cell' = entry.goal_cell
           /\ end_node' = entry.end_node
           /\ retarget_called' = entry.retarget_called
           /\ SetSearch(entry.search)
           /\ phase' = IF entry.search.returned THEN "done" ELSE "search"
    /\ UNCHANGED <<width, height, grid>>
    /\ UNCHANGED schedVars
    /\ UNCHANGED apiVars

\* one iteration of the loop, for any entry the heap may pop
SearchStep ==
    /\ phase = "search"
    /\ open_set # {}
    /\ \E current \in PopCandidates(open_set) :
         \E st \in {LoopIteration(SearchState, current, Unwrap(end_node))} :
             /\ SetSearch(st)
             /\ phase' = IF st.returned THEN "done" ELSE "search"
    /\ UNCHANGED <<width, height, grid, start, end, start_node, end_node,
                   goal_cell, retarget_called>>
    /\ UNCHANGED schedVars
    /\ UNCHANGED apiVars

\* the open set ran empty: None
SearchExhausted ==
    /\ phase = "search"
    /\ open_set = {}
    /\ phase' = "done"
    /\ result' = None
    /\ UNCHANGED <<width, height, grid, start, end, start_node, end_node,
                   goal_cell, retarget_called, open_set, came_from, g_score,
                   closed_set, raw_path>>
    /\ UNCHANGED schedVars
    /\ UNCHANGED apiVars

\* the caller has taken the result; the locals are gone
Return ==
    /\ phase = "done"
    /\ phase' = "idle"
    /\ NoCall
    /\ UNCHANGED <<width, height, grid>>
    /\ UNCHANGED schedVars
    /\ UNCHANGED apiVars

Next ==
    \/ \E s \in StartPositions, e \in EndPositions : FindPathCall(s, e)
    \/ SearchStep
    \/ SearchExhausted
    \/ Return

Spec == Init /\ [][Next]_vars

\* One call of find_path run to its return. Its loop is not scheduled:
\* every iteration follows the one before
NextRun ==
    \/ \E s \in StartPositions, e \in EndPositions : FindPathCall(s, e)
    \/ SearchStep
    \/ SearchExhausted

\* the loop of find_path has an entry to pop: SearchStep is enabled
IsLoopIteration == phase = "search" /\ open_set # {}

\* weak fairness of SearchStep, its enabling condition written out
RunsOn == []<>(~IsLoopIteration) \/ []<><<SearchStep>>_vars

SpecRun == Init /\ [][NextRun]_vars /\ RunsOn /\ WF_vars(SearchExhausted)

\* ------------------------------------------------------------------------
\* The world grid with two corridors
\* ------------------------------------------------------------------------
\* Two corridors lead from MazeStart to the same cell. Each is a sequence of
\* legs <<dx, dy, n>>: n moves by (dx, dy). The first runs 99 diagonal moves,
\* the last 70 of them straight into the goal, and 4 cardinal ones; the
\* second runs 144 cardinal moves.
MazeStart == <<14, 31>>
DiagonalCorridor ==
    <<<<-1, -1, 14>>, <<0, -1, 2>>, <<1, -1, 15>>, <<1, 0, 2>>, <<1, 1, 70>>>>
CardinalCorridor == <<<<0, 1, 55>>, <<1, 0, 73>>, <<0, -1, 16>>>>
\* a walkable cell no corridor leads to
MazeIsland == <<50, 95>>

\* the cells n moves by (dx, dy) from p need: the cells moved to and, for a
\* diagonal move, the two cells beside it
LegCells(p, dx, dy, n) ==
    {p} \cup UNION {{<<p[1] + (k + 1) * dx, p[2] + (k + 1) * dy>>,
                     <<p[1] + (k + 1) * dx, p[2] + k * dy>>,
                     <<p[1] + k * dx, p[2] + (k + 1) * dy>>} : k \in 0..(n - 1)}

RECURSIVE CorridorCells(_, _, _)
CorridorCells(p, legs, i) ==
    IF i > Len(legs) THEN {p}
    ELSE LegCells(p, legs[i][1], legs[i][2], legs[i][3])
           \cup CorridorCells(<<p[1] + legs[i][1] * legs[i][3],
                                p[2] + legs[i][2] * legs[i][3]>>, legs, i + 1)

RECURSIVE CorridorEnd(_, _, _)
CorridorEnd(p, legs, i) ==
    IF i > Len(legs) THEN p
    ELSE CorridorEnd(<<p[1] + legs[i][1] * legs[i][3],
                       p[2] + legs[i][2] * legs[i][3]>>, legs, i + 1)

MazeGoal == CorridorEnd(MazeStart, DiagonalCorridor, 1)
MazeCells ==
    CorridorCells(MazeStart, DiagonalCorridor, 1)
      \cup CorridorCells(MazeStart, CardinalCorridor, 1)
      \cup {MazeIsland}

\* NavGrid::new, then set_obstacle on every cell outside the corridors
MazeGrid ==
    {c[2] * WorldWidth + c[1] : c \in MazeCells}

InitMaze ==
    /\ width = WorldWidth
    /\ height = WorldHeight
    /\ grid = MazeGrid
    /\ NoCallYet
    /\ NoQueryYet
    /\ NoSchedule

NextMaze ==
    \/ \E e \in {MazeGoal, MazeIsland} :
          FindPathCall(grid_to_world(MazeStart[1], MazeStart[2]),
                       grid_to_world(e[1], e[2]))
    \/ SearchStep
    \/ SearchExhausted
    \/ Return

SpecMaze == InitMaze /\ [][NextMaze]_vars

\* ------------------------------------------------------------------------
\* Staggered path updates (enemy.rs)
\* ------------------------------------------------------------------------
\* u32 arithmetic on <<high, low>> limbs of 16 bits
U32WrappingAdd1(n) ==
    IF n[2] + 1 < Limb THEN <<n[1], n[2] + 1>>
    ELSE IF n[1] + 1 < Limb THEN <<n[1] + 1, 0>>
    ELSE <<0, 0>>
U32Mod(n, m) == ((n[1] % m) * (Limb % m) + (n[2] % m)) % m

\* mutant: the offset is stored as given, not reduced modulo the window
NewZombie_RawOffset(path_offset, pos) ==
    [path_update_offset |-> path_offset,
     translation |-> pos,
     waypoints |-> << >>,
     current_index |-> 0,
     controller |-> "none"]

\* Zombie::new(path_offset) with ZombiePath::default() at a position
NewZombie(path_offset, pos) ==
    [path_update_offset |-> path_offset % StaggerWindow,
     translation |-> pos,
     waypoints |-> << >>,
     current_index |-> 0,
     controller |-> "none"]

\* mutant: every zombie is updated on every frame
OffsetMatches_Always(zombie, current_frame) == TRUE

\* zombie.path_update_offset != current_frame is false
OffsetMatches(zombie, current_frame) == zombie.path_update_offset = current_frame

\* mutant: a failed search clears the path
UpdatedPath_ClearOnFailure(zombie, current_frame) ==
    IF ~OffsetMatches(zombie, current_frame) THEN zombie
    ELSE LET new_path == find_path(zombie.translation, player_pos)
         IN  IF IsSome(new_path)
             THEN [zombie EXCEPT !.waypoints = Unwrap(new_path), !.current_index = 0]
             ELSE [zombie EXCEPT !.waypoints = << >>, !.current_index = 0]

\* mutant: a found path is appended to what is left of the old one
UpdatedPath_Merged(zombie, current_frame) ==
    IF ~OffsetMatches(zombie, current_frame) THEN zombie
    ELSE LET new_path == find_path(zombie.translation, player_pos)
         IN  IF IsSome(new_path)
             THEN [zombie EXCEPT !.waypoints = @ \o Unwrap(new_path)]
             ELSE zombie

\* mutant: a found path replaces the waypoints and the cursor is left alone
UpdatedPath_KeepCursor(zombie, current_frame) ==
    IF ~OffsetMatches(zombie, current_frame) THEN zombie
    ELSE LET new_path == find_path(zombie.translation, player_pos)
         IN  IF IsSome(new_path)
             THEN [zombie EXCEPT !.waypoints = Unwrap(new_path)]
             ELSE zombie

\* body of the loop of update_zombie_paths for one zombie
UpdatedPath(zombie, current_frame) ==
    IF ~OffsetMatches(zombie, current_frame) THEN zombie
    ELSE LET new_path == find_path(zombie.translation, player_pos)
         IN  IF IsSome(new_path)
             THEN [zombie EXCEPT !.waypoints = Unwrap(new_path), !.current_index = 0]
             ELSE zombie

\* mutant: a zombie past its last waypoint keeps counting
MovedZombie_PastEnd(zombie) ==
    IF zombie.waypoints = << >> THEN [zombie EXCEPT !.controller = "zero"]
    ELSE IF zombie.current_index >= Len(zombie.waypoints)
    THEN [zombie EXCEPT !.current_index = @ + 1]
    ELSE LET target == zombie.waypoints[zombie.current_index + 1]
             direction == <<target[1] - zombie.translation[1],
                            target[2] - zombie.translation[2]>>
             distance2 == direction[1] * direction[1] + direction[2] * direction[2]
         IN  IF distance2 < ArriveDistance * ArriveDistance
             THEN [zombie EXCEPT !.current_index = @ + 1]
             ELSE [zombie EXCEPT !.controller = "move"]

\* body of the loop of move_zombies for one zombie (current_index counts
\* from 0, waypoints from 1)
MovedZombie(zombie) ==
    IF zombie.waypoints = << >> \/ zombie.current_index >= Len(zombie.waypoints)
    THEN [zombie EXCEPT !.controller = "zero"]
    ELSE LET target == zombie.waypoints[zombie.current_index + 1]
             direction == <<target[1] - zombie.translation[1],
                            target[2] - zombie.translation[2]>>
             distance2 == direction[1] * direction[1] + direction[2] * direction[2]
         IN  IF distance2 < ArriveDistance * ArriveDistance
             THEN [zombie EXCEPT !.current_index = @ + 1]
             ELSE [zombie EXCEPT !.controller = "move"]

\* where the zombies spawn and where the player stands
SpawnPositions == {grid_to_world(0, 0), grid_to_world(0, height - 1)}

\* the grids of the scheduling runs: no obstacle, the cell at the world
\* origin blocked, and a wall across the second column
SchedGrids ==
    {NewGrid(width, height),
     mark_obstacle_world(NewGrid(width, height), <<0, 0>>, <<0, 0>>),
     mark_obstacle_world(NewGrid(width, height),
                         <<grid_to_world(1, 0)[1], 0>>,
                         <<0, (height * cell_size) \div 2 - 1>>)}

\* where the player spawns (the world origin) and where it may walk to
PlayerPositions == {<<0, 0>>, grid_to_world(0, 0)}

\* the frame counter at its default, and WrapLead ticks before the u32 wraps
FrameStarts == {<<0, 0>>, <<Limb - 1, Limb - WrapLead>>}

\* Startup has run: the grid is built, the zombies and the player spawned;
\* the frame counter is at its default or has counted up to the last values
\* of a u32
InitSched ==
    /\ width = GridW
    /\ height = GridH
    /\ grid \in SchedGrids
    /\ NoCallYet
    /\ NoQueryYet
    /\ frame \in FrameStarts
    /\ zombies \in {[i \in 0..(NumZombies - 1) |-> NewZombie(i, pos[i])] :
                      pos \in [0..(NumZombies - 1) -> SpawnPositions]}
    /\ player_pos = <<0, 0>>
    /\ sched_pc = "increment_frame_counter"
    /\ ticks = 0
    /\ searched = {}
    /\ window = << >>
    /\ previous = zombies

\* the last StaggerWindow entries of a record of the updates
LastWindow(log) ==
    IF Len(log) <= StaggerWindow THEN log
    ELSE SubSeq(log, Len(log) - StaggerWindow + 1, Len(log))

\* increment_frame_counter
IncrementFrameCounter ==
    /\ sched_pc = "increment_frame_counter"
    /\ ticks < MaxTicks
    /\ frame' = U32WrappingAdd1(frame)
    /\ ticks' = ticks + 1
    /\ sched_pc' = "update_zombie_paths"
    /\ UNCHANGED <<zombies, player_pos, searched, window, previous>>
    /\ UNCHANGED <<width, height, grid, phase>>
    /\ UNCHANGED searchVars
    /\ UNCHANGED apiVars

\* update_zombie_paths
UpdateZombiePaths ==
    /\ sched_pc = "update_zombie_paths"
    /\ LET current_frame == U32Mod(frame, StaggerWindow)
       IN  /\ zombies' = [z \in DOMAIN zombies |-> UpdatedPath(zombies[z], current_frame)]
           /\ searched' = {z \in DOMAIN zombies : OffsetMatches(zombies[z], current_frame)}
    /\ window' = LastWindow(Append(window, searched'))
    /\ previous' = zombies
    /\ sched_pc' = "move_zombies"
    /\ UNCHANGED <<frame, player_pos, ticks>>
    /\ UNCHANGED <<width, height, grid, phase>>
    /\ UNCHANGED searchVars
    /\ UNCHANGED apiVars

\* move_zombies
MoveZombies ==
    /\ sched_pc = "move_zombies"
    /\ zombies' = [z \in DOMAIN zombies |-> MovedZombie(zombies[z])]
    /\ sched_pc' = "physics"
    /\ UNCHANGED <<frame, player_pos, ticks, searched, window, previous>>
    /\ UNCHANGED <<width, height, grid, phase>>
    /\ UNCHANGED searchVars
    /\ UNCHANGED apiVars

\* the physics engine consumes the controllers' translations: a zombie told
\* to move is anywhere between where it was and its waypoint, here either
\* end of that stretch; the player walks where its input takes it
PhysicsStepWith(arrivals, positions) ==
    /\ sched_pc = "physics"
    /\ player_pos' \in positions
    /\ zombies' \in
          {[z \in DOMAIN zombies |->
               [zombies[z] EXCEPT
                  !.controller = "none",
                  !.translation =
                      IF zombies[z].controller = "move" /\ z \in arrived
                      THEN zombies[z].waypoints[zombies[z].current_index + 1]
                      ELSE @]] :
             arrived \in arrivals}
    /\ sched_pc' = "increment_frame_counter"
    /\ UNCHANGED <<frame, ticks, searched, window, previous>>
    /\ UNCHANGED <<width, height, grid, phase>>
    /\ UNCHANGED searchVars
    /\ UNCHANGED apiVars

\* every zombie on its own reaches its waypoint within the tick or does not
PhysicsStep == PhysicsStepWith(SUBSET (DOMAIN zombies), PlayerPositions)

NextSched ==
    \/ IncrementFrameCounter
    \/ UpdateZombiePaths
    \/ MoveZombies
    \/ PhysicsStep

SpecSched == InitSched /\ [][NextSched]_vars

\* The sweep of a whole horde: spawn_zombies with N zombies, zombie i on
\* side i % 4 of the map with offset i; all zombies of a side at one position
SweepCounts == {NumZombies, StaggerWindow + 1, zombie_count}

SpawnedHorde(n, side) ==
    [i \in 0..(n - 1) |-> NewZombie(i, side[i % SpawnSides])]

InitSweep ==
    /\ width = GridW
    /\ height = GridH
    /\ grid \in SchedGrids
    /\ NoCallYet
    /\ NoQueryYet
    /\ frame \in FrameStarts
    /\ zombies \in {SpawnedHorde(n, side) :
                      n \in SweepCounts,
                      side \in [0..(SpawnSides - 1) -> SpawnPositions]}
    /\ player_pos = <<0, 0>>
    /\ sched_pc = "increment_frame_counter"
    /\ ticks = 0
    /\ searched = {}
    /\ window = << >>
    /\ previous = zombies

\* the zombies move in step, each reaching its waypoint within the tick,
\* and the player stands still
PhysicsSweep == PhysicsStepWith({DOMAIN zombies}, {player_pos})

NextSweep ==
    \/ IncrementFrameCounter
    \/ UpdateZombiePaths
    \/ MoveZombies
    \/ PhysicsSweep

SpecSweep == InitSweep /\ [][NextSweep]_vars

\* half extents of the obstacles of spawn_obstacles: a point, a crate of one
\* cell, and walls as long as the grid along either axis
ObstacleHalfExtents ==
    {<<0, 0>>,
     <<cell_size \div 2, cell_size \div 2>>,
     <<(width * cell_size) \div 2, 0>>,
     <<0, (height * cell_size) \div 2>>}

\* The program from its start: the plugins are built (NavGrid::new), the
\* Startup schedule registers the obstacles and spawns the zombies, then the
\* Update chain runs tick after tick
InitLife ==
    /\ width = GridW
    /\ height = GridH
    /\ grid = NewGrid(width, height)
    /\ NoCallYet
    /\ NoQueryYet
    /\ frame = <<0, 0>>
    /\ zombies = << >>
    /\ player_pos = <<0, 0>>
    /\ sched_pc = "startup"
    /\ ticks = 0
    /\ searched = {}
    /\ window = << >>
    /\ previous = zombies

\* mutant: obstacles are registered whenever a tick begins, too
InStartup_OrBetweenTicks == sched_pc \in {"startup", "increment_frame_counter"}

\* the Startup schedule is running: spawn_obstacles is a Startup system
InStartup == sched_pc = "startup"

\* spawn_obstacles registers one more obstacle
SpawnObstacle(pos, half_extents) ==
    /\ InStartup
    /\ marks < MaxMarks
    /\ grid' = mark_obstacle_world(grid, pos, half_extents)
    /\ marks' = marks + 1
    /\ UNCHANGED <<width, height, phase, query, answer>>
    /\ UNCHANGED searchVars
    /\ UNCHANGED schedVars

\* Startup ends: spawn_zombies has put the horde on one side of the map
StartupDone ==
    /\ sched_pc = "startup"
    /\ \E pos \in SpawnPositions :
          zombies' = SpawnedHorde(NumZombies, [k \in 0..(SpawnSides - 1) |-> pos])
    /\ previous' = zombies'
    /\ sched_pc' = "increment_frame_counter"
    /\ UNCHANGED <<frame, player_pos, ticks, searched, window>>
    /\ UNCHANGED <<width, height, grid, phase>>
    /\ UNCHANGED searchVars
    /\ UNCHANGED apiVars

NextLife ==
    \/ \E pos \in MarkPositions, half_extents \in ObstacleHalfExtents :
          SpawnObstacle(pos, half_extents)
    \/ StartupDone
    \/ IncrementFrameCounter
    \/ UpdateZombiePaths
    \/ MoveZombies
    \/ PhysicsSweep

SpecLife == InitLife /\ [][NextLife]_vars

\* The grid called directly: NavGrid::new, then obstacles registered
\* (spawn_obstacles) and cells asked for
InitApi ==
    /\ \E d \in Dims : width = d[1] /\ height = d[2]
    /\ grid = NewGrid(width, height)
    /\ NoCallYet
    /\ NoQueryYet
    /\ NoSchedule

\* usize coordinates up to just beyond the grid
QueryCoords == (0..(width + 1)) \X (0..(height + 1))

\* nav_grid.mark_obstacle_world(pos, half_extents)
MarkObstacleWorldCall(pos, half_extents) ==
    /\ query.op = "none"
    /\ marks < MaxMarks
    /\ grid' = mark_obstacle_world(grid, pos, half_extents)
    /\ query' = [op |-> "mark_obstacle_world", pos |-> pos,
                 half_extents |-> half_extents]
    /\ answer' = None
    /\ marks' = marks + 1
    /\ UNCHANGED <<width, height, phase>>
    /\ UNCHANGED searchVars
    /\ UNCHANGED schedVars

\* nav_grid.is_walkable(x, y)
IsWalkableCall(x, y) ==
    /\ query.op = "none"
    /\ query' = [op |-> "is_walkable", x |-> x, y |-> y]
    /\ answer' = Some(is_walkable(x, y))
    /\ UNCHANGED <<width, height, grid, phase, marks>>
    /\ UNCHANGED searchVars
    /\ UNCHANGED schedVars

\* nav_grid.can_walk_straight(start, end), as simplify_path calls it
CanWalkStraightCall(s, e) ==
    /\ query.op = "none"
    /\ query' = [op |-> "can_walk_straight", start |-> s, end |-> e]
    /\ answer' = Some(can_walk_straight(s, e))
    /\ UNCHANGED <<width, height, grid, phase, marks>>
    /\ UNCHANGED searchVars
    /\ UNCHANGED schedVars

\* the caller has taken what the call returned
ApiReturn ==
    /\ query.op # "none"
    /\ query' = [op |-> "none"]
    /\ answer' = None
    /\ UNCHANGED <<width, height, grid, phase, marks>>
    /\ UNCHANGED searchVars
    /\ UNCHANGED schedVars

NextApi ==
    \/ \E pos \in MarkPositions, half_extents \in ObstacleHalfExtents :
          MarkObstacleWorldCall(pos, half_extents)
    \/ \E c \in QueryCoords : IsWalkableCall(c[1], c[2])
    \/ \E s \in StartPositions, e \in EndPositions : CanWalkStraightCall(s, e)
    \/ ApiReturn

SpecApi == InitApi /\ [][NextApi]_vars

TypeOK ==
    /\ phase \in {"idle", "search", "done"}
    /\ grid \subseteq 0..(width * height - 1)

\* ------------------------------------------------------------------------
\* Reference notions used by the properties (geometry and graph of the
\* grid, stated without the search)
\* ------------------------------------------------------------------------
Walkable(c) == c \in Cells /\ (c[2] * width + c[1]) \in grid

\* the position lies within the world extent of the grid
InExtent(pos) ==
    /\ offset.x <= pos[1] /\ pos[1] < offset.x + width * cell_size
    /\ offset.y <= pos[2] /\ pos[2] < offset.y + height * cell_size

\* the cell whose world extent holds the position (floor, not truncation)
CellContaining(pos) ==
    <<(pos[1] - offset.x) \div cell_size, (pos[2] - offset.y) \div cell_size>>

\* truncation toward zero sends the position to no cell of the grid: it is
\* a whole cell or more below the low edge, or at or beyond the high edge
ConvertsToNoCell(pos) ==
    \/ pos[1] - offset.x <= -cell_size \/ pos[1] - offset.x >= width * cell_size
    \/ pos[2] - offset.y <= -cell_size \/ pos[2] - offset.y >= height * cell_size

CentreOf(c) ==
    <<offset.x + c[1] * cell_size + cell_size \div 2,
      offset.y + c[2] * cell_size + cell_size \div 2>>

Dist2(p, q) == (p[1] - q[1]) * (p[1] - q[1]) + (p[2] - q[2]) * (p[2] - q[2])
Chebyshev(a, b) == Max(Abs(a[1] - b[1]), Abs(a[2] - b[2]))

\* a legal move of the 8-connected graph with the corner-cutting rule
LegalMove(a, b) ==
    /\ a \in Cells /\ b \in Cells
    /\ Chebyshev(a, b) = 1
    /\ Walkable(b)
    /\ (a[1] # b[1] /\ a[2] # b[2]) => (Walkable(<<b[1], a[2]>>) /\ Walkable(<<a[1], b[2]>>))

StepCost(a, b) == IF a[1] # b[1] /\ a[2] # b[2] THEN DiagonalCost ELSE CardinalCost

\* the cells around c
Around(c) ==
    {a \in {<<c[1] + dx, c[2] + dy>> : dx \in {-1, 0, 1}, dy \in {-1, 0, 1}} :
        a # c /\ a \in Cells}

\* one round of label correcting: offer every cell a legal move away from
\* the cells whose cost fell in the last round a route through them
CheapestRound(st) ==
    LET dist == st.dist
        frontier == st.frontier
        targets == {c \in UNION {Around(b) : b \in frontier} :
                       \E b \in frontier : LegalMove(b, c)}
        offers(c) == {dist[b] + StepCost(b, c) :
                        b \in {a \in frontier : LegalMove(a, c)}}
        offer(c) == CHOOSE v \in offers(c) : \A w \in offers(c) : v <= w
        improved == {c \in targets : c \notin DOMAIN dist \/ offer(c) < dist[c]}
    IN  [dist |-> [c \in DOMAIN dist \cup improved |->
                     IF c \in improved THEN offer(c) ELSE dist[c]],
         frontier |-> improved]

RECURSIVE CheapestFrom(_, _)
\* n rounds, or as many as it takes until no cost falls
CheapestFrom(st, n) ==
    IF st.frontier = {} THEN st
    ELSE IF n <= 1 THEN CheapestRound(st)
    ELSE CheapestFrom(CheapestFrom(st, n \div 2), n - n \div 2)

\* cost of the cheapest legal route from s to every cell (F32_MAX: none);
\* a cheapest route visits no cell twice, so width * height rounds suffice
CheapestCosts(s) ==
    LET dist == CheapestFrom([dist |-> [c \in {s} |-> 0], frontier |-> {s}],
                             width * height).dist
    IN  [c \in Cells |-> IF c \in DOMAIN dist THEN dist[c] ELSE F32_MAX]

RECURSIVE RouteCostBetween(_, _, _)
\* cost of the moves from route[lo] to route[hi]
RouteCostBetween(route, lo, hi) ==
    IF lo >= hi THEN 0
    ELSE IF lo + 1 = hi THEN StepCost(route[lo], route[hi])
    ELSE LET mid == (lo + hi) \div 2
         IN  RouteCostBetween(route, lo, mid) + RouteCostBetween(route, mid, hi)
\* cost of a route given as world points or as cells
RouteCost(route) == RouteCostBetween(route, 1, Len(route))

\* does the segment from a to b cross the interior of cell c
CrossesInterior(a, b, c) ==
    LET lox == offset.x + c[1] * cell_size
        hix == lox + cell_size
        loz == offset.y + c[2] * cell_size
        hiz == loz + cell_size
        side(px, pz) == (b[1] - a[1]) * (pz - a[2]) - (b[2] - a[2]) * (px - a[1])
        corners == {side(lox, loz), side(lox, hiz), side(hix, loz), side(hix, hiz)}
    IN  /\ Min(a[1], b[1]) < hix /\ Max(a[1], b[1]) > lox
        /\ Min(a[2], b[2]) < hiz /\ Max(a[2], b[2]) > loz
        /\ a # b => ((\E v \in corners : v > 0) /\ (\E v \in corners : v < 0))

Returned == phase = "done"
ReturnedPath == phase = "done" /\ IsSome(result)
Path == Unwrap(result)

\* the cell the search aims at: the goal cell, or the cell the ring search
\* chose when the goal cell is blocked
TargetCell ==
    IF Walkable(CellContaining(end)) THEN CellContaining(end) ELSE Unwrap(end_node)

\* ------------------------------------------------------------------------
\* Properties
\* ------------------------------------------------------------------------

\* C1: for start and end inside the grid, a returned path starts at the
\* centre of the cell containing start and ends at the centre of the goal
\* cell (of the retargeted cell when the goal cell is blocked); on a fully
\* walkable grid a path is always returned, its first waypoint within one
\* cell of start and its last within one cell of end.
C1_Endpoints ==
    (Returned /\ InExtent(start) /\ InExtent(end)) =>
        /\ IsSome(result) =>
              /\ Path[1] = CentreOf(CellContaining(start))
              /\ Path[Len(Path)] = CentreOf(TargetCell)
        /\ (\A c \in Cells : Walkable(c)) =>
              /\ IsSome(result)
              /\ Dist2(Path[1], start) <= cell_size * cell_size
              /\ Dist2(Path[Len(Path)], end) <= cell_size * cell_size

C1_Witness ==
    /\ ReturnedPath /\ InExtent(start) /\ InExtent(end)
    /\ start # CentreOf(CellContaining(start))
    /\ ~Walkable(CellContaining(end))
    /\ Len(Path) >= 2

\* C2: no waypoint of a returned path lies in a cell that is not walkable.
C2_WaypointsWalkable ==
    ReturnedPath =>
        \A i \in 1..Len(Path) :
            /\ InExtent(Path[i])
            /\ Walkable(CellContaining(Path[i]))

C2_Witness ==
    /\ ReturnedPath
    /\ Len(Path) >= 3
    /\ \E c \in Cells : ~Walkable(c)

\* C3 (as claimed): between consecutive waypoints of a returned path the
\* straight segment crosses the interior of no blocked cell.
C3_SegmentsClear ==
    ReturnedPath =>
        \A i \in 1..(Len(Path) - 1) :
            \A c \in Cells :
                CrossesInterior(Path[i], Path[i + 1], c) => Walkable(c)

\* C4: with start and end converting to cells and the start cell walkable,
\* a path is returned exactly when a sequence of legal moves leads from
\* the start cell to the goal cell (the retargeted cell when the goal cell
\* is blocked); a returned path is complete, from the start cell to that
\* cell.
C4_PathIffRoute ==
    (Returned /\ IsSome(start_node) /\ IsSome(goal_cell)
        /\ Walkable(Unwrap(start_node))) =>
        LET reach == CheapestCosts(Unwrap(start_node))
        IN  /\ IsSome(result) <=>
                 (IsSome(end_node) /\ reach[Unwrap(end_node)] < F32_MAX)
            /\ IsSome(result) =>
                 /\ Path[1] = CentreOf(Unwrap(start_node))
                 /\ Path[Len(Path)] = CentreOf(Unwrap(end_node))

C4_WitnessNoRoute ==
    /\ Returned /\ IsSome(start_node) /\ IsSome(end_node)
    /\ Walkable(Unwrap(start_node)) /\ Walkable(Unwrap(goal_cell))
    /\ result = None
    /\ closed_set # {}

\* C5: the raw route rebuilt when the goal is popped costs no more than any
\* legal route from the start cell to the goal cell.
C5_RawRouteOptimal ==
    ReturnedPath =>
        RouteCost(raw_path) = CheapestCosts(Unwrap(start_node))[Unwrap(end_node)]

\* C6: a start cell that is not walkable makes find_path fail at once, for
\* every end position: no result, no cell expanded, no search state set up.
C6_StartBlocked ==
    (phase # "idle" /\ IsSome(start_node) /\ ~Walkable(Unwrap(start_node))) =>
        /\ phase = "done"
        /\ result = None
        /\ closed_set = {}
        /\ open_set = {}
        /\ DOMAIN g_score = {}
        /\ ~retarget_called

C6_Witness ==
    /\ Returned /\ IsSome(start_node) /\ ~Walkable(Unwrap(start_node))
    /\ IsSome(goal_cell)
    /\ \A c \in Cells : ~Walkable(c)

C8_TenRings ==
    (retarget_called /\ \E c \in Cells :
                           Walkable(c) /\ Chebyshev(c, Unwrap(goal_cell)) <= 10) =>
        IsSome(end_node)

\* C8 (amended): with a blocked goal cell, a retarget cell is found exactly
\* when a walkable cell lies within 9 rings of the goal cell.
C8_NineRings ==
    retarget_called =>
        (IsSome(end_node) <=>
            \E c \in Cells : Walkable(c) /\ Chebyshev(c, Unwrap(goal_cell)) <= 9)

C8_Witness ==
    /\ retarget_called /\ IsSome(end_node)
    /\ Chebyshev(Unwrap(end_node), Unwrap(goal_cell)) = 9

\* C9: a start or end position that converts to no cell makes find_path
\* return nothing, with no retargeting and no search.
C9_OutOfBounds ==
    (phase # "idle" /\ (ConvertsToNoCell(start) \/ ConvertsToNoCell(end))) =>
        /\ phase = "done"
        /\ result = None
        /\ ~retarget_called
        /\ end_node = None
        /\ closed_set = {}
        /\ open_set = {}
        /\ DOMAIN g_score = {}

C9_Witness ==
    /\ Returned
    /\ ~ConvertsToNoCell(start)
    /\ Walkable(Unwrap(start_node))
    /\ ConvertsToNoCell(end)

\* C10: the path update changes the waypoint sequence or the cursor of a
\* zombie only if its stagger offset equals the frame counter modulo 20;
\* every other zombie keeps both, and no search is run for it.
C10_OnlyEligibleUpdated ==
    [][(sched_pc = "update_zombie_paths" /\ sched_pc' = "move_zombies") =>
          \A z \in DOMAIN zombies :
              zombies[z].path_update_offset # U32Mod(frame, 20) =>
                  /\ zombies'[z].waypoints = zombies[z].waypoints
                  /\ zombies'[z].current_index = zombies[z].current_index
                  /\ z \notin searched']_vars

C10_Witness ==
    /\ sched_pc = "move_zombies"
    /\ \E z \in DOMAIN zombies :
          /\ z \in searched
          /\ zombies[z].waypoints # << >>
          /\ zombies[z].current_index = 0
    /\ \E z \in DOMAIN zombies :
          /\ z \notin searched
          /\ zombies[z].waypoints # << >>
          /\ zombies[z].current_index > 0

\* C11 (as claimed): over any StaggerWindow consecutive ticks, whatever the
\* value of the frame counter, every zombie is eligible for a path update
\* exactly once.
C11_OncePerWindow ==
    Len(window) = StaggerWindow =>
        \A z \in DOMAIN zombies :
            Cardinality({i \in 1..StaggerWindow : z \in window[i]}) = 1

\* the zombies eligible for a path update at the frame counter's value
Eligible == {z \in DOMAIN zombies :
               zombies[z].path_update_offset = U32Mod(frame, StaggerWindow)}

CeilDiv(n, w) == (n + w - 1) \div w

\* how often the zombie was searched for in the recorded updates
Recomputes(z) == Cardinality({i \in 1..Len(window) : z \in window[i]})

\* C12: with N zombies of offsets i mod 20, at most ceil(N / 20) are
\* eligible on a tick; with 40 zombies and the counter started at 0, exactly
\* 2 are eligible after 1 tick, and after 20 ticks every zombie has been
\* searched for exactly once.
C12_StaggeredLoad ==
    /\ Cardinality(Eligible) <= CeilDiv(Cardinality(DOMAIN zombies), StaggerWindow)
    /\ Cardinality(searched) <= CeilDiv(Cardinality(DOMAIN zombies), StaggerWindow)
    /\ (Cardinality(DOMAIN zombies) = zombie_count /\ frame = <<0, 1>> /\ ticks = 1)
          => /\ Cardinality(Eligible) = zombie_count \div StaggerWindow
             /\ sched_pc # "update_zombie_paths"
                   => Cardinality(searched) = zombie_count \div StaggerWindow
    /\ (Cardinality(DOMAIN zombies) = zombie_count /\ frame = <<0, StaggerWindow>>
          /\ ticks = StaggerWindow /\ sched_pc # "update_zombie_paths")
          => \A z \in DOMAIN zombies : Recomputes(z) = 1

C12_Witness ==
    /\ Cardinality(DOMAIN zombies) = zombie_count
    /\ frame = <<0, StaggerWindow>>
    /\ ticks = StaggerWindow
    /\ sched_pc = "move_zombies"
    /\ Len(window) = StaggerWindow
    /\ \A i \in 1..StaggerWindow : Cardinality(window[i]) = 2

\* what find_path returned to the last path update for the zombie
Recomputed(z) == find_path(previous[z].translation, player_pos)

\* the last path update has run and the zombies have not moved since
JustUpdated == sched_pc = "move_zombies"

\* C13: a zombie whose search failed keeps its waypoints and its
\* current_index exactly as they were before the path update.
C13_StaleOnFailure ==
    JustUpdated =>
        \A z \in searched :
            ~IsSome(Recomputed(z)) =>
                /\ zombies[z].waypoints = previous[z].waypoints
                /\ zombies[z].current_index = previous[z].current_index

C13_Witness ==
    /\ JustUpdated
    /\ \E z \in searched :
          /\ ~IsSome(Recomputed(z))
          /\ previous[z].waypoints # << >>
          /\ previous[z].current_index > 0
          /\ zombies[z].waypoints = previous[z].waypoints

\* C14: a zombie whose search succeeded has the returned path as its
\* waypoints, nothing of the old waypoints kept, and current_index 0.
C14_ReplacedOnSuccess ==
    JustUpdated =>
        \A z \in searched :
            IsSome(Recomputed(z)) =>
                /\ zombies[z].waypoints = Unwrap(Recomputed(z))
                /\ zombies[z].current_index = 0

C14_Witness ==
    /\ JustUpdated
    /\ \E z \in searched :
          /\ IsSome(Recomputed(z))
          /\ previous[z].waypoints # << >>
          /\ previous[z].waypoints # Unwrap(Recomputed(z))
          /\ previous[z].current_index > 0
          /\ zombies[z].waypoints = Unwrap(Recomputed(z))
          /\ zombies[z].current_index = 0

\* C15 (as claimed): world_to_grid returns a cell exactly for the positions
\* inside the grid: a returned cell is in the grid and its world extent
\* holds the position, and a position outside the grid's world extent on
\* either axis converts to no cell.
C15_CellIffInside ==
    phase # "idle" =>
        /\ IsSome(start_node) =>
              /\ Unwrap(start_node) \in Cells
              /\ InExtent(start)
              /\ CellContaining(start) = Unwrap(start_node)
        /\ ~InExtent(start) => start_node = None

\* C16: grid_to_world(x, y) is the centre of cell (x, y), and world_to_grid
\* takes it back to (x, y), for every cell of the grid.
C16_CentreRoundTrip ==
    \A c \in Cells :
        /\ grid_to_world(c[1], c[2]) = CentreOf(c)
        /\ world_to_grid(grid_to_world(c[1], c[2])) = Some(c)

C16_Witness ==
    /\ Returned
    /\ IsSome(result)
    /\ start_node # end_node
    /\ Path[1] = grid_to_world(Unwrap(start_node)[1], Unwrap(start_node)[2])
    /\ world_to_grid(Path[1]) = start_node
    /\ world_to_grid(Path[Len(Path)]) = end_node

\* C17: is_walkable(x, y) is false for x >= width or y >= height, reading
\* no element of the grid's array, and the stored flag of cell (x, y)
\* otherwise.
C17_WalkableInRange ==
    query.op = "is_walkable" =>
        IF query.x >= width \/ query.y >= height
        THEN answer = Some(FALSE)
        ELSE answer = Some((query.y * width + query.x) \in grid)

C17_Witness ==
    /\ query.op = "is_walkable"
    /\ query.x = width
    /\ query.y < height - 1
    /\ (query.y * width + query.x) \in grid
    /\ answer = Some(FALSE)

\* the world extent of the cell meets the rectangle pos +- half_extents
Covered(c, pos, half_extents) ==
    /\ pos[1] - half_extents[1] < offset.x + (c[1] + 1) * cell_size
    /\ pos[1] + half_extents[1] >= offset.x + c[1] * cell_size
    /\ pos[2] - half_extents[2] < offset.y + (c[2] + 1) * cell_size
    /\ pos[2] + half_extents[2] >= offset.y + c[2] * cell_size

\* C18 (as claimed): after an obstacle is registered by position and half
\* extents, every cell of the grid the rectangle covers is not walkable,
\* also when the rectangle reaches beyond the grid.
C18_CoveredCellsBlocked ==
    query.op = "mark_obstacle_world" =>
        \A c \in Cells :
            Covered(c, query.pos, query.half_extents) => ~Walkable(c)

RECURSIVE MatchesFrom(_, _, _, _)
\* sub[i..] can be picked out of route[j..] in order, at increasing indices
MatchesFrom(sub, i, route, j) ==
    IF i > Len(sub) THEN TRUE
    ELSE IF j > Len(route) THEN FALSE
    ELSE IF sub[i] = route[j] THEN MatchesFrom(sub, i + 1, route, j + 1)
    ELSE MatchesFrom(sub, i, route, j + 1)

IsSubsequence(sub, route) == MatchesFrom(sub, 1, route, 1)

\* C19: the simplified path is a subsequence of the raw route, begins with
\* its first point and ends with its last, and is no longer than it.
C19_SimplifiedSubsequence ==
    (Returned /\ IsSome(result)) =>
        /\ IsSubsequence(Path, raw_path)
        /\ Path[1] = raw_path[1]
        /\ Path[Len(Path)] = raw_path[Len(raw_path)]
        /\ Len(Path) <= Len(raw_path)

C19_Witness ==
    /\ Returned
    /\ IsSome(result)
    /\ Len(Path) >= 3
    /\ Len(Path) < Len(raw_path)
    /\ IsSubsequence(Path, raw_path)

\* the least number of equal parts of the segment that are each at most
\* half a cell long
PartsOfHalfACell(s, e) ==
    LET d2 == 4 * Dist2(s, e)
        f == ISqrt(d2 \div (cell_size * cell_size))
    IN  IF f * f * cell_size * cell_size >= d2 THEN f ELSE f + 1

\* the points between the parts lie in walkable cells of the grid
SampledClear(s, e, parts) ==
    \A i \in 1..(parts - 1) :
        LET c == world_to_grid_scaled(s[1] * parts + (e[1] - s[1]) * i,
                                      s[2] * parts + (e[2] - s[2]) * i, parts)
        IN  IsSome(c) /\ Walkable(Unwrap(c))

\* C20 (as claimed): can_walk_straight(A, B) is true exactly if every point
\* sampled on the segment at a spacing of at most half a cell lies in a
\* walkable cell of the grid, and it is true for A = B.
C20_HalfCellSampling ==
    query.op = "can_walk_straight" =>
        /\ answer = Some(SampledClear(query.start, query.end,
                                      PartsOfHalfACell(query.start, query.end)))
        /\ query.start = query.end => answer = Some(TRUE)

\* C21: the grid is written only while the world is built, before any
\* search has run; afterwards no step changes a cell, and a cell once marked
\* not walkable never becomes walkable again.
C21_WriteOnce ==
    /\ [](sched_pc = "startup" => (window = << >> /\ phase = "idle"))
    /\ [][grid' # grid => (sched_pc = "startup" /\ sched_pc' = "startup")]_vars
    /\ [][grid' \subseteq grid]_vars

C21_Witness ==
    /\ sched_pc = "move_zombies"
    /\ grid # NewGrid(width, height)
    /\ \E z \in searched : IsSome(Recomputed(z)) /\ Len(zombies[z].waypoints) >= 3

\* C22: every search ends, and within a search a cell is expanded at most
\* once: an iteration that pops an entry of a closed cell changes nothing
\* but the open set, and an iteration that expands a cell puts it into the
\* closed set, where it stays.
C22_ExpandedOnce ==
    /\ (phase = "search") ~> (phase = "done")
    /\ [][IsLoopIteration =>
            /\ closed_set \subseteq closed_set'
            /\ \A n \in open_set \ open_set' :
                  /\ n.pos \in closed_set =>
                        /\ closed_set' = closed_set
                        /\ g_score' = g_score
                        /\ came_from' = came_from
                        /\ open_set' = open_set \ {n}
                  /\ (n.pos \notin closed_set /\ phase' = "search") =>
                        closed_set' = closed_set \cup {n.pos}]_vars

C22_Witness ==
    /\ phase = "search"
    /\ closed_set # {}
    /\ \E n \in PopCandidates(open_set) : n.pos \in closed_set

\* the distance between two positions in cost units, rounded down and up
DistanceFloor(p, q) == SqrtCost(Dist2(p, q))
DistanceCeil(p, q) ==
    LET d2 == Dist2(p, q)
    IN  IF ISqrt(d2) * ISqrt(d2) = d2 THEN SqrtCost(d2) ELSE SqrtCost(d2) + 1

RECURSIVE LengthCeilFrom(_, _)
\* the sum of the distances between consecutive waypoints from the i-th on,
\* each rounded up
LengthCeilFrom(path, i) ==
    IF i >= Len(path) THEN 0
    ELSE DistanceCeil(path[i], path[i + 1]) + LengthCeilFrom(path, i + 1)

PathLengthCeil(path) == LengthCeilFrom(path, 1)

\* C23 (as claimed): the length of a returned path is at least the
\* straight-line distance between the start and end positions of the call.
C23_LengthAtLeastStraight ==
    ReturnedPath => PathLengthCeil(Path) >= DistanceFloor(start, end)

\* C23 (amended): the length of a returned path is at least the distance
\* between the centre of the start cell and the centre of the cell the
\* search aimed at.
C23_LengthAtLeastCentres ==
    ReturnedPath =>
        PathLengthCeil(Path) >=
            DistanceFloor(CentreOf(Unwrap(start_node)), CentreOf(Unwrap(end_node)))

C23_Witness ==
    /\ ReturnedPath
    /\ Len(Path) >= 3
    /\ start # CentreOf(Unwrap(start_node))
    /\ PathLengthCeil(Path) >
          DistanceCeil(CentreOf(Unwrap(start_node)), CentreOf(Unwrap(end_node)))
    /\ PathLengthCeil(Path) >= DistanceFloor(start, end)

\* the cells of the raw route
RawCells == [i \in 1..Len(raw_path) |-> CellContaining(raw_path[i])]

IsDiagonal(a, b) == a[1] # b[1] /\ a[2] # b[2]

\* C24: every neighbour get_neighbors returns for a cell is a walkable cell
\* of the grid one step away, a diagonal one only if the two cells beside
\* the step are walkable; no step of a raw route cuts a blocked corner.
C24_NoCornerCutting ==
    /\ \A c \in Cells :
          \A neighbors \in {get_neighbors(c)} :
              \A k \in 1..Len(neighbors) :
                  \A n \in {neighbors[k]} :
                      /\ n \in Cells
                      /\ Chebyshev(c, n) = 1
                      /\ (n[2] * width + n[1]) \in grid
                      /\ IsDiagonal(c, n) =>
                            /\ (c[2] * width + n[1]) \in grid
                            /\ (n[2] * width + c[1]) \in grid
    /\ Returned =>
          \A i \in 1..(Len(raw_path) - 1) : LegalMove(RawCells[i], RawCells[i + 1])

C24_Witness ==
    /\ ReturnedPath
    /\ \E i \in 1..(Len(raw_path) - 1) : IsDiagonal(RawCells[i], RawCells[i + 1])
    /\ \E c \in closed_set :
          \E d \in Around(c) :
              /\ IsDiagonal(c, d)
              /\ Walkable(d)
              /\ ~LegalMove(c, d)
              /\ \A k \in 1..Len(get_neighbors(c)) : get_neighbors(c)[k] # d

\* C25 (as claimed): the heuristic is admissible and consistent for the
\* move costs of the search: it is at most the cost of the cheapest legal
\* route between two cells, and for every legal step from a to b and every
\* goal, h(a, goal) <= cost(a, b) + h(b, goal).
C25_HeuristicAdmissible ==
    /\ \A a \in Cells :
          Walkable(a) =>
              \A costs \in {CheapestCosts(a)} :
                  \A b \in Cells :
                      costs[b] # F32_MAX => heuristic(a, b) <= costs[b]
    /\ \A a \in Cells, b \in Cells, goal \in Cells :
          (Walkable(a) /\ LegalMove(a, b)) =>
              heuristic(a, goal) <= move_cost(a, b) + heuristic(b, goal)

\* from the i-th point of the route the j-th may follow in a simplified
\* path: it is the next point, or can_walk_straight accepts the segment
MayFollow(route, i, j) ==
    i < j /\ (j = i + 1 \/ can_walk_straight(route[i], route[j]))

RECURSIVE HopsToEnd(_, _, _)
\* the least number of segments from a point of `reached` to the last point
\* of the route, having made n already
HopsToEnd(route, reached, n) ==
    IF Len(route) \in reached THEN n
    ELSE HopsToEnd(route,
                   {j \in 1..Len(route) : \E i \in reached : MayFollow(route, i, j)},
                   n + 1)

\* the least number of waypoints of a subsequence of the route from its
\* first to its last point in which each point may follow the one before
FewestWaypoints(route) == HopsToEnd(route, {1}, 0) + 1

\* ---- A room with pillars ----

\* the cells of the pillars: they cut the corner cell (0, 0) off
DetourPillars == {<<1, 0>>, <<0, 1>>, <<1, 1>>, <<3, 1>>}

RECURSIVE MarkedAll(_, _)
\* the grid after mark_obstacle_world on the centre of each of the cells,
\* with an obstacle of no extent
MarkedAll(g, cells) ==
    IF cells = {} THEN g
    ELSE LET c == CHOOSE c \in cells : TRUE
         IN  MarkedAll(mark_obstacle_world(g, grid_to_world(c[1], c[2]), <<0, 0>>),
                       cells \ {c})

InitDetour ==
    /\ width = GridW
    /\ height = GridH
    /\ grid = MarkedAll(NewGrid(width, height), DetourPillars)
    /\ NoCallYet
    /\ NoQueryYet
    /\ NoSchedule

\* the agent and the target may each be at any cell centre or off-centre
\* point
NextDetour ==
    \/ \E s \in EndPositions, e \in EndPositions : FindPathCall(s, e)
    \/ SearchStep
    \/ SearchExhausted
    \/ Return

SpecDetour == InitDetour /\ [][NextDetour]_vars

\* C26 (as claimed): no subsequence of the raw route that keeps its first
\* and last points, each point adjacent to the one before or accepted by
\* can_walk_straight, has fewer waypoints than the simplified path.
C26_SimplifiedMinimal ==
    ReturnedPath => Len(Path) <= FewestWaypoints(raw_path)

\* the systems of the Update chain in the order of a tick, the physics
\* engine's step after them
ChainOrder ==
    <<"increment_frame_counter", "update_zombie_paths", "move_zombies", "physics">>

\* the system that runs after the given one
ChainSuccessor(system) ==
    LET i == CHOOSE k \in 1..Len(ChainOrder) : ChainOrder[k] = system
    IN  ChainOrder[(i % Len(ChainOrder)) + 1]

\* move_zombies has run in this tick and the physics engine has not yet
JustMoved == sched_pc = "physics"

\* the zombie as the path update of this tick left it, given that its
\* search succeeded
Replaced(z) ==
    [previous[z] EXCEPT !.waypoints = Unwrap(Recomputed(z)), !.current_index = 0]

\* C27: within a tick the frame counter is incremented first, then
\* eligibility is evaluated against the incremented counter and the searches
\* run, then movement runs; the movement of a tick reads the path recomputed
\* in that tick, with the cursor at 0 and never one left over from the
\* replaced path.
C27_UpdateBeforeMove ==
    /\ [][/\ sched_pc \in {ChainOrder[k] : k \in 1..Len(ChainOrder)}
              => sched_pc' = ChainSuccessor(sched_pc)
          /\ frame' # frame => sched_pc = "increment_frame_counter"
          /\ sched_pc = "update_zombie_paths"
              => /\ searched' = Eligible
                 /\ \A z \in searched' :
                       IsSome(find_path(zombies[z].translation, player_pos))
                          => /\ zombies'[z].waypoints
                                  = Unwrap(find_path(zombies[z].translation, player_pos))
                             /\ zombies'[z].current_index = 0
          /\ sched_pc = "move_zombies"
              => \A z \in searched :
                    IsSome(Recomputed(z))
                       => /\ zombies[z].waypoints = Unwrap(Recomputed(z))
                          /\ zombies[z].current_index = 0
                          /\ zombies'[z] = MovedZombie(Replaced(z))]_vars
    /\ [](JustMoved =>
            \A z \in searched :
                IsSome(Recomputed(z)) => zombies[z] = MovedZombie(Replaced(z)))

C27_Witness ==
    /\ JustMoved
    /\ \E z \in searched :
          /\ IsSome(Recomputed(z))
          /\ previous[z].waypoints # << >>
          /\ previous[z].waypoints # Unwrap(Recomputed(z))
          /\ previous[z].current_index > 1
          /\ zombies[z].waypoints = Unwrap(Recomputed(z))
          /\ zombies[z].current_index = 1

\* the zombie's cursor is past its last waypoint
AtEnd(zombie) == zombie.current_index = Len(zombie.waypoints)

Origin(c) == Ancestor(came_from, c, Cardinality(DOMAIN came_from))

\* C29: during every search the predecessor links contain no cycle and lead
\* from every cell that has one back to the start cell, along legal
\* neighbour moves between walkable cells; the raw route rebuilt when the
\* goal is popped starts at the start cell, ends at the goal, visits no cell
\* twice, and each of its steps is the predecessor link of the cell it
\* enters.
C29_RawRouteWellFormed ==
    /\ (phase # "idle" /\ IsSome(start_node)) =>
          /\ Unwrap(start_node) \notin DOMAIN came_from
          /\ \A c \in DOMAIN came_from :
                /\ Origin(c) = Unwrap(start_node)
                /\ LegalMove(came_from[c], c)
    /\ (Returned /\ raw_path # << >>) =>
          /\ RawCells[1] = Unwrap(start_node)
          /\ RawCells[Len(raw_path)] = Unwrap(end_node)
          /\ \A i, k \in 1..Len(raw_path) : RawCells[i] = RawCells[k] => i = k
          /\ \A i \in 1..(Len(raw_path) - 1) :
                /\ came_from[RawCells[i + 1]] = RawCells[i]
                /\ LegalMove(RawCells[i], RawCells[i + 1])

C29_Witness ==
    /\ ReturnedPath
    /\ Len(raw_path) >= 4
    /\ Cardinality(DOMAIN came_from) > Len(raw_path)
    /\ RawCells[1] = Unwrap(start_node)
    /\ RawCells[Len(raw_path)] = Unwrap(end_node)
    /\ \E i \in 1..(Len(raw_path) - 1) : IsDiagonal(RawCells[i], RawCells[i + 1])

\* ---- The grid's mutators called directly, on grids of any size ----

\* a call that unwound with a panic instead of returning
Panic == Some("panic")

\* set_obstacle(x, y)
set_obstacle(g, x, y) ==
    IF x < width /\ y < height THEN g \ {y * width + x} ELSE g

\* `bound.min(size - 1)` on usize: with size = 0 the subtraction panics in
\* a build with overflow checks (None) and wraps to usize::MAX in a build
\* without, and the minimum of a usize and usize::MAX is the usize itself
ClampedHigh(bound, size, overflow_checks) ==
    IF size = 0
    THEN IF overflow_checks THEN None ELSE Some(bound)
    ELSE Some(Min(bound, size - 1))

\* set_obstacle_rect(min_x, min_y, max_x, max_y) with its ways to fail: the
\* grid it leaves and whether it panicked. The bound of the inner loop is
\* computed only if the outer loop runs at all, and a write at an index
\* not below grid.len() = width * height panics.
SetObstacleRectRun(g, min_x, min_y, max_x, max_y, overflow_checks) ==
    LET high_y == ClampedHigh(max_y, height, overflow_checks)
        high_x == ClampedHigh(max_x, width, overflow_checks)
        returned == [grid |-> g, panicked |-> FALSE]
        failed == [grid |-> g, panicked |-> TRUE]
    IN  IF ~IsSome(high_y) THEN failed
        ELSE IF min_y > Unwrap(high_y) THEN returned
        ELSE IF ~IsSome(high_x) THEN failed
        ELSE IF min_x > Unwrap(high_x) THEN returned
        ELSE LET indices == {y * width + x : x \in min_x..Unwrap(high_x),
                                             y \in min_y..Unwrap(high_y)}
             IN  IF \E i \in indices : i >= width * height
                 THEN [grid |-> g \ {i \in indices :
                                       \A k \in indices : k < i => k < width * height},
                       panicked |-> TRUE]
                 ELSE [grid |-> g \ indices, panicked |-> FALSE]

\* the sizes NavGrid::new accepts: any usize, here none, one and several
\* cells on either axis
GridSizes == {0, 1, GridW} \X {0, 1, GridH}

\* NavGrid::new(width, height, 1.0)
InitGridMap ==
    /\ \E d \in GridSizes : width = d[1] /\ height = d[2]
    /\ grid = NewGrid(width, height)
    /\ NoCallYet
    /\ NoQueryYet
    /\ NoSchedule

\* nav_grid.set_obstacle(x, y)
SetObstacleCall(x, y) ==
    /\ query.op = "none"
    /\ marks < MaxMarks
    /\ grid' = set_obstacle(grid, x, y)
    /\ query' = [op |-> "set_obstacle", x |-> x, y |-> y, before |-> grid]
    /\ answer' = None
    /\ marks' = marks + 1
    /\ UNCHANGED <<width, height, phase>>
    /\ UNCHANGED searchVars
    /\ UNCHANGED schedVars

\* nav_grid.set_obstacle_rect(min_x, min_y, max_x, max_y), in a build with
\* or without overflow checks
SetObstacleRectCall(min_x, min_y, max_x, max_y) ==
    /\ query.op = "none"
    /\ marks < MaxMarks
    /\ \E overflow_checks \in BOOLEAN :
          \E run \in {SetObstacleRectRun(grid, min_x, min_y, max_x, max_y,
                                          overflow_checks)} :
              /\ grid' = run.grid
              /\ answer' = IF run.panicked THEN Panic ELSE None
    /\ query' = [op |-> "set_obstacle_rect", min_x |-> min_x, min_y |-> min_y,
                 max_x |-> max_x, max_y |-> max_y, before |-> grid]
    /\ marks' = marks + 1
    /\ UNCHANGED <<width, height, phase>>
    /\ UNCHANGED searchVars
    /\ UNCHANGED schedVars

\* the call returned to its caller; after a panic nothing runs
GridMapReturn == answer # Panic /\ ApiReturn

NextGridMap ==
    \/ \E c \in QueryCoords : SetObstacleCall(c[1], c[2])
    \/ \E lo \in QueryCoords, hi \in QueryCoords :
          SetObstacleRectCall(lo[1], lo[2], hi[1], hi[2])
    \/ \E pos \in MarkPositions, half_extents \in ObstacleHalfExtents :
          MarkObstacleWorldCall(pos, half_extents)
    \/ GridMapReturn

SpecGridMap == InitGridMap /\ [][NextGridMap]_vars

\* the indices of the cells of the grid within the rectangle of usize
\* coordinates
RectIndices(min_x, min_y, max_x, max_y) ==
    {c[2] * width + c[1] :
        c \in {d \in Cells : /\ min_x <= d[1] /\ d[1] <= max_x
                              /\ min_y <= d[2] /\ d[2] <= max_y}}

\* C30 (as claimed): on a grid of any size the constructor accepts, zero
\* width or height included, no call of set_obstacle, set_obstacle_rect or
\* mark_obstacle_world panics; the walkability array stays within
\* width * height cells; and a call of set_obstacle or set_obstacle_rect
\* changes no cell outside the cell or rectangle it was given.
C30_NoOperationFails ==
    /\ answer # Panic
    /\ grid \subseteq 0..(width * height - 1)
    /\ query.op = "set_obstacle"
          => query.before \ grid \subseteq RectIndices(query.x, query.y, query.x, query.y)
    /\ query.op = "set_obstacle_rect"
          => query.before \ grid
                \subseteq RectIndices(query.min_x, query.min_y, query.max_x, query.max_y)
    /\ query.op \in {"set_obstacle", "set_obstacle_rect"}
          => grid \subseteq query.before

====
